---- MODULE Spec2Model ----
(***************************************************************************)
(* A model of the tidb-bench load generators (src/bin/insert.rs and        *)
(* src/bin/select.rs) and of the shared settings module (src/lib.rs).      *)
(*                                                                         *)
(* A run has `concurrency` workers.  For each worker the rlt driver calls  *)
(* the BenchSuite methods in the order  state -> setup -> bench* ->        *)
(* teardown; every `.await` on the connection is one database round trip   *)
(* and one step of the model.  Each method is modelled by the sequence of  *)
(* statements its code sends (one sequence per match arm) and a position   *)
(* in that sequence; a `?` on a failed round trip returns from the method. *)
(***************************************************************************)
EXTENDS Integers, Sequences, FiniteSets, TLC

(***************************************************************************)
(* Bounds of the model.                                                    *)
(***************************************************************************)
MaxWorkers == 2
MaxIters == 2
MaxSize == 2
MaxFaults == 1

(***************************************************************************)
(* Program constants.                                                      *)
(***************************************************************************)
TEST_DATA_MULTIPLIER == 2
BIGINT_SIZE == 8
\* bytes per inserted row: the literal `50 + 4` of insert.rs
RowDataBytes == 50
RowIntBytes == 4
\* four cross-joined ten-row derived tables produce 10^4 numbers
GeneratorRows == 10000
\* "test_data_" is ten characters
SeedPrefixLen == 10

TxModes == {"AutoCommit", "Optimistic", "Pessimistic"}
Workloads == {"insert", "select"}
Sizes == {1, MaxSize}

VARIABLES
    concurrency,      \* configured number of workers
    workload,         \* which binary runs: "insert" or "select"
    tx_mode,          \* self.tx_mode
    size,             \* self.batch_size (insert) / self.select_count (select)
    tableExists,      \* the benchmark table exists on the server
    rows,             \* committed rows in the benchmark table
    faults,           \* round trips that failed for an external reason so far
    pc,               \* per worker: which method it is in
    ip,               \* per worker: position in the method's statement sequence
    iters,            \* bench calls made so far in the run
    insert_counter,   \* WorkerState.insert_counter
    result,           \* per worker: what the last bench call returned
    failedOp,         \* per worker: a round trip of the last bench call failed
    sent,             \* per worker: statements sent by the current/last bench call
    bytes,            \* per worker: the local `bytes` of the current/last bench call
    fetched,          \* per worker: rows the last SELECT returned
    gen,              \* per worker: counter values used to build rows so far
    txOpen,           \* per worker: the session has an open explicit transaction
    tidb_txn_mode,    \* per worker: the session's tidb_txn_mode
    setCount,         \* per worker: SET SESSION tidb_txn_mode statements sent
    setupErr,         \* per worker: how setup ended
    conn,             \* per worker: WorkerState.conn: "none" before state(),
                      \* "ok" once connected, "failed" when state() returned
                      \* the connection error
    setupRun,         \* per worker: how its setup has gone: "fresh" (began with
                      \* no table) or "rerun" (began with the table in place)
                      \* while no other worker sent DDL since, else "disturbed";
                      \* "none" outside setup and once the worker moves on
    wide              \* one SELECT worker followed at the full width of
                      \* select_count (u32, as two 16-bit halves); see SpecWide

config == <<concurrency, workload, tx_mode, size>>
db == <<tableExists, rows>>
vars == <<concurrency, workload, tx_mode, size, tableExists, rows, faults,
          pc, ip, iters, insert_counter, result, failedOp, sent, bytes, fetched,
          gen, txOpen, tidb_txn_mode, setCount, setupErr, conn, setupRun, wide>>

AllWorkers == 0..(MaxWorkers - 1)
Workers == 0..(concurrency - 1)

NoResult == [kind |-> "none", status |-> 0, bytes |-> 0, items |-> 0]
ErrResult == [kind |-> "Err", status |-> 0, bytes |-> 0, items |-> 0]

(***************************************************************************)
(* The statements each method sends, in order.                             *)
(***************************************************************************)
\* lib.rs: DbOpts::init_tx_mode.  Neither binary calls it.
init_tx_mode(mode) ==
    CASE mode = "AutoCommit" -> << >>
      [] mode = "Optimistic" -> <<"SET_OPTIMISTIC">>
      [] mode = "Pessimistic" -> <<"SET_PESSIMISTIC">>

\* insert.rs / select.rs: state() only opens the connection.
InsertBench_state == <<"CONNECT">>
SelectBench_state == <<"CONNECT">>

\* variant: the DROP TABLE IF EXISTS is left out
InsertBench_setup_NoDrop == <<"CREATE">>
InsertBench_setup == <<"DROP", "CREATE">>
SelectBench_setup == <<"DROP", "CREATE", "SEED">>

\* variant: the Optimistic arm forgets to commit
InsertBench_bench_NoCommit(mode) ==
    CASE mode = "AutoCommit" -> <<"INSERT">>
      [] mode = "Optimistic" -> <<"BEGIN", "INSERT">>
      [] mode = "Pessimistic" ->
            <<"SET_PESSIMISTIC", "BEGIN", "INSERT", "COMMIT", "SET_OPTIMISTIC">>

InsertBench_bench(mode) ==
    CASE mode = "AutoCommit" -> <<"INSERT">>
      [] mode = "Optimistic" -> <<"BEGIN", "INSERT", "COMMIT">>
      [] mode = "Pessimistic" ->
            <<"SET_PESSIMISTIC", "BEGIN", "INSERT", "COMMIT", "SET_OPTIMISTIC">>

SelectBench_bench(mode) ==
    CASE mode = "AutoCommit" -> <<"SELECT">>
      [] mode = "Optimistic" -> <<"BEGIN", "SELECT", "COMMIT">>
      [] mode = "Pessimistic" ->
            <<"SET_PESSIMISTIC", "BEGIN", "SELECT", "COMMIT", "SET_OPTIMISTIC">>

\* variant: teardown leaves the table in place
InsertBench_teardown_NoDrop == <<"SET_OPTIMISTIC">>
InsertBench_teardown == <<"DROP">>
SelectBench_teardown == <<"DROP">>

StateProg == IF workload = "insert" THEN InsertBench_state ELSE SelectBench_state
SetupProg == IF workload = "insert" THEN InsertBench_setup ELSE SelectBench_setup
BenchProg == IF workload = "insert" THEN InsertBench_bench(tx_mode)
                                    ELSE SelectBench_bench(tx_mode)
TeardownProg == IF workload = "insert" THEN InsertBench_teardown
                                       ELSE SelectBench_teardown

(***************************************************************************)
(* Values computed by the methods.                                         *)
(***************************************************************************)
\* insert.rs: `counter = state.insert_counter + i as u64` for i in 0..batch_size
BatchCounters(counter, batch_size) == {counter + i : i \in 0..(batch_size - 1)}

\* variant: the Optimistic arm leaves `bytes` at its initial 0
InsertBytes_OptimisticZero(mode, batch_size) ==
    IF mode = "Optimistic" THEN 0 ELSE batch_size * (RowDataBytes + RowIntBytes)

\* insert.rs: `bytes = (self.batch_size as u64) * (50 + 4)`, the same in each arm
InsertBytes(mode, batch_size) == batch_size * (RowDataBytes + RowIntBytes)

\* variant: the counter advances by one per iteration
NextCounter_ByOne(counter, batch_size) == counter + 1

\* insert.rs: `state.insert_counter += self.batch_size as u64`
NextCounter(counter, batch_size) == counter + batch_size

\* insert.rs: `items: self.batch_size as u64`
InsertItems(batch_size) == batch_size

\* select.rs: `insert_count = self.select_count * TEST_DATA_MULTIPLIER`
insert_count(select_count) == select_count * TEST_DATA_MULTIPLIER

\* select.rs: rows the seeding statement inserts (`WHERE n <= ?`)
SeededRows(select_count) ==
    IF insert_count(select_count) < GeneratorRows
    THEN insert_count(select_count) ELSE GeneratorRows

\* rows a `SELECT ... LIMIT ?` returns
Fetched(select_count, n) == IF select_count < n THEN select_count ELSE n

Digits(n) == IF n < 10 THEN 1 ELSE IF n < 100 THEN 2 ELSE IF n < 1000 THEN 3
             ELSE IF n < 10000 THEN 4 ELSE 5

RECURSIVE SelectBytes(_)
\* select.rs: `bytes += BIGINT_SIZE + data.len()` over the fetched rows, which
\* are taken to be the first seeded ones ('test_data_1', 'test_data_2', ...)
SelectBytes(k) ==
    IF k = 0 THEN 0
    ELSE SelectBytes(k - 1) + BIGINT_SIZE + SeedPrefixLen + Digits(k)

\* select.rs: `items: self.select_count as u64`
SelectItems(select_count, n) == select_count

\* the local `bytes` after the round trip at position i of the match arm: the
\* insert arms assign it after their last round trip, the select arms add the
\* fetched rows up after the SELECT
BytesAfter(w, op, last) ==
    IF workload = "insert"
    THEN IF last THEN InsertBytes(tx_mode, size) ELSE bytes[w]
    ELSE IF op = "SELECT" THEN bytes[w] + SelectBytes(Fetched(size, rows))
         ELSE bytes[w]

\* the IterReport a bench call returns when no `?` returned early
Report(b, n) ==
    [kind |-> "Ok", status |-> 0, bytes |-> b,
     items |-> IF workload = "insert" THEN InsertItems(size)
                                      ELSE SelectItems(size, n)]

(***************************************************************************)
(* The database's answer to one statement.                                 *)
(***************************************************************************)
\* "ok", or why the statement is refused in the current database state
Refusal(op) ==
    CASE op = "CREATE" /\ tableExists -> "exists"
      [] op \in {"INSERT", "SELECT", "SEED"} /\ ~tableExists -> "notable"
      [] OTHER -> "ok"

IsDDL(op) == op \in {"DROP", "CREATE", "SEED"}
IsSet(op) == op \in {"SET_OPTIMISTIC", "SET_PESSIMISTIC"}

\* effect of a successful statement of worker w on the table
DbEffect(w, op) ==
    CASE op = "DROP" -> tableExists' = FALSE /\ rows' = 0
      [] op = "CREATE" -> tableExists' = TRUE /\ rows' = 0
      [] op = "SEED" -> tableExists' = tableExists /\ rows' = rows + SeededRows(size)
      [] op = "INSERT" /\ ~txOpen[w] ->
            tableExists' = tableExists /\ rows' = rows + size
      [] op = "COMMIT" /\ workload = "insert" ->
            tableExists' = tableExists /\ rows' = rows + size
      [] OTHER -> UNCHANGED db

\* effect of a successful statement of worker w on its own session
SessionEffect(w, op, open) ==
    /\ txOpen' = [txOpen EXCEPT ![w] =
            CASE op = "BEGIN" -> TRUE
              [] op = "COMMIT" -> FALSE
              [] OTHER -> open]
    /\ tidb_txn_mode' = [tidb_txn_mode EXCEPT ![w] =
            CASE op = "SET_OPTIMISTIC" -> "optimistic"
              [] op = "SET_PESSIMISTIC" -> "pessimistic"
              [] OTHER -> @]
    /\ setCount' = [setCount EXCEPT ![w] = IF IsSet(op) THEN @ + 1 ELSE @]

\* a statement that fails leaves the session as it was, except that a failed
\* COMMIT ends the transaction
SessionFail(w, op, open) ==
    /\ txOpen' = [txOpen EXCEPT ![w] = IF op = "COMMIT" THEN FALSE ELSE open]
    /\ tidb_txn_mode' = tidb_txn_mode
    /\ setCount' = [setCount EXCEPT ![w] = IF IsSet(op) THEN @ + 1 ELSE @]

\* The outcomes of a round trip: refused by the database, failed for an
\* external reason (network, write conflict), or done.
Outcomes(op) ==
    IF Refusal(op) # "ok" THEN {Refusal(op)}
    ELSE {"ok"} \cup (IF faults < MaxFaults THEN {"fault"} ELSE {})

CountFault(o) == faults' = IF o = "fault" THEN faults + 1 ELSE faults

\* a Transaction dropped without commit is rolled back by the driver before
\* the connection's next command: the first statement of a method finds no
\* transaction open
OpenAt(w, i) == IF i = 1 THEN FALSE ELSE txOpen[w]

\* bookkeeping of setupRun when worker w sends op: own is w's new value, and
\* every other worker whose setup is under way has seen foreign DDL
Track(w, op, own) ==
    setupRun' = [v \in AllWorkers |->
        IF v = w THEN own
        ELSE IF setupRun[v] # "none" /\ IsDDL(op) THEN "disturbed"
        ELSE setupRun[v]]

(***************************************************************************)
(* select_count at its full width.  A u32 is kept as two 16-bit halves     *)
(* [hi, lo], value hi * 2^16 + lo.                                         *)
(***************************************************************************)
Half == 256 * 256

\* a number below 2^16 as a u32
U32Of(n) == [hi |-> n \div Half, lo |-> n % Half]

\* u32 comparison a <= b
U32Leq(a, b) == a.hi < b.hi \/ (a.hi = b.hi /\ a.lo <= b.lo)

\* a * k for a small k: the high half before it is cut to 16 bits
MulHigh(a, k) == k * a.hi + ((k * a.lo) \div Half)

\* a * k does not fit in a u32
MulOverflows(a, k) == MulHigh(a, k) >= Half

\* a * k wrapped to 32 bits
MulWrapped(a, k) == [hi |-> MulHigh(a, k) % Half, lo |-> (k * a.lo) % Half]

\* select.rs: `insert_count = self.select_count * TEST_DATA_MULTIPLIER` on u32:
\* an overflow panics in a build with overflow checks (debug) and wraps in one
\* without (release)
insert_count_u32(select_count, build) ==
    IF MulOverflows(select_count, TEST_DATA_MULTIPLIER) /\ build = "debug"
    THEN [panic |-> TRUE, value |-> U32Of(0)]
    ELSE [panic |-> FALSE, value |-> MulWrapped(select_count, TEST_DATA_MULTIPLIER)]

\* variant: a fifth ten-row derived table in the cross join
SeededRowsU32_FiveTables(count) ==
    IF U32Leq(count, U32Of(10 * GeneratorRows)) THEN count.hi * Half + count.lo
    ELSE 10 * GeneratorRows

\* select.rs: rows the seeding statement inserts: the numbers 1..10^4 the
\* cross join generates that are `<= insert_count`
SeededRowsU32(count) ==
    IF U32Leq(count, U32Of(GeneratorRows)) THEN count.lo ELSE GeneratorRows

\* rows `SELECT ... LIMIT select_count` returns from a table of n rows
FetchedU32(select_count, n) ==
    IF U32Leq(select_count, U32Of(n)) THEN select_count.lo ELSE n

WideIdle == [phase |-> "idle"]

\* the values of select_count followed
WideHi == {0, 1, 32767, 32768, 65535}
WideLo == {0, 1, 2, 5000, 5001, 10000, 10001, 65535}
Builds == {"debug", "release"}

(***************************************************************************)
(* Initial state: a configuration, an empty database, no worker started.   *)
(***************************************************************************)
Init ==
    /\ concurrency \in 1..MaxWorkers
    /\ workload \in Workloads
    /\ tx_mode \in TxModes
    /\ size \in Sizes
    /\ tableExists = FALSE
    /\ rows = 0
    /\ faults = 0
    /\ pc = [w \in AllWorkers |-> "start"]
    /\ ip = [w \in AllWorkers |-> 1]
    /\ iters = 0
    /\ insert_counter = [w \in AllWorkers |-> 0]
    /\ result = [w \in AllWorkers |-> NoResult]
    /\ failedOp = [w \in AllWorkers |-> FALSE]
    /\ sent = [w \in AllWorkers |-> << >>]
    /\ bytes = [w \in AllWorkers |-> 0]
    /\ fetched = [w \in AllWorkers |-> 0]
    /\ gen = [w \in AllWorkers |-> {}]
    /\ txOpen = [w \in AllWorkers |-> FALSE]
    /\ tidb_txn_mode = [w \in AllWorkers |-> "default"]
    /\ setCount = [w \in AllWorkers |-> 0]
    /\ setupErr = [w \in AllWorkers |-> "pending"]
    /\ conn = [w \in AllWorkers |-> "none"]
    /\ setupRun = [w \in AllWorkers |-> "none"]
    /\ wide = WideIdle

(***************************************************************************)
(* state(): open the worker's connection; insert_counter starts at 0.      *)
(***************************************************************************)
\* variant: the connection error is swallowed and the worker carries on
State_ErrorIgnored(w) ==
    /\ pc[w] = "start"
    /\ \E o \in Outcomes(StateProg[1]) :
        /\ CountFault(o)
        /\ conn' = [conn EXCEPT ![w] = IF o = "ok" THEN "ok" ELSE "failed"]
        /\ pc' = [pc EXCEPT ![w] = "setup"]
    /\ ip' = [ip EXCEPT ![w] = 1]
    /\ insert_counter' = [insert_counter EXCEPT ![w] = 0]
    /\ UNCHANGED <<config, db, iters, result, failedOp, sent, bytes, fetched,
                   gen, txOpen, tidb_txn_mode, setCount, setupErr, setupRun>>

State(w) ==
    /\ pc[w] = "start"
    /\ \E o \in Outcomes(StateProg[1]) :
        /\ CountFault(o)
        /\ conn' = [conn EXCEPT ![w] = IF o = "ok" THEN "ok" ELSE "failed"]
        /\ pc' = [pc EXCEPT ![w] = IF o = "ok" THEN "setup" ELSE "dead"]
    /\ ip' = [ip EXCEPT ![w] = 1]
    /\ insert_counter' = [insert_counter EXCEPT ![w] = 0]
    /\ UNCHANGED <<config, db, iters, result, failedOp, sent, bytes, fetched,
                   gen, txOpen, tidb_txn_mode, setCount, setupErr, setupRun>>

(***************************************************************************)
(* setup(): one round trip of the worker's setup.  Every worker runs it:   *)
(* `_worker_id` is not looked at.                                          *)
(***************************************************************************)
Setup(w) ==
    /\ pc[w] = "setup"
    /\ LET op == SetupProg[ip[w]]
           last == ip[w] = Len(SetupProg)
       IN \E o \in Outcomes(op) :
            /\ CountFault(o)
            /\ IF o = "ok"
               THEN /\ DbEffect(w, op)
                    /\ SessionEffect(w, op, OpenAt(w, ip[w]))
                    /\ pc' = [pc EXCEPT ![w] = IF last THEN "ready" ELSE "setup"]
                    /\ ip' = [ip EXCEPT ![w] = IF last THEN 1 ELSE @ + 1]
                    /\ setupErr' = [setupErr EXCEPT ![w] = IF last THEN "none" ELSE @]
               ELSE /\ UNCHANGED db
                    /\ SessionFail(w, op, OpenAt(w, ip[w]))
                    /\ pc' = [pc EXCEPT ![w] = "dead"]
                    /\ ip' = [ip EXCEPT ![w] = 1]
                    /\ setupErr' = [setupErr EXCEPT ![w] = o]
            /\ Track(w, op,
                     IF o # "ok" THEN "none"
                     ELSE IF ip[w] > 1 THEN setupRun[w]
                     ELSE IF tableExists THEN "rerun" ELSE "fresh")
    /\ UNCHANGED <<config, iters, insert_counter, result, failedOp, sent, bytes,
                   fetched, gen, conn>>

(***************************************************************************)
(* bench(): entry (`let t = Instant::now(); let mut bytes = 0u64;`).       *)
(***************************************************************************)
BenchCall(w) ==
    /\ pc[w] = "ready"
    /\ iters < MaxIters
    /\ pc' = [pc EXCEPT ![w] = "bench"]
    /\ ip' = [ip EXCEPT ![w] = 1]
    /\ iters' = iters + 1
    /\ sent' = [sent EXCEPT ![w] = << >>]
    /\ bytes' = [bytes EXCEPT ![w] = 0]
    /\ fetched' = [fetched EXCEPT ![w] = 0]
    /\ failedOp' = [failedOp EXCEPT ![w] = FALSE]
    /\ result' = [result EXCEPT ![w] = NoResult]
    /\ setupRun' = [setupRun EXCEPT ![w] = "none"]
    /\ UNCHANGED <<config, db, faults, insert_counter, gen, txOpen,
                   tidb_txn_mode, setCount, setupErr, conn>>

(***************************************************************************)
(* bench(): one round trip of the match arm of self.tx_mode.  A failed     *)
(* round trip returns Err through `?`; after the last one the counter      *)
(* advances and the report is returned.                                    *)
(***************************************************************************)
Bench(w) ==
    /\ pc[w] = "bench"
    /\ LET op == BenchProg[ip[w]]
           last == ip[w] = Len(BenchProg)
       IN \E o \in Outcomes(op) :
            /\ CountFault(o)
            /\ sent' = [sent EXCEPT ![w] = Append(@, op)]
            /\ gen' = [gen EXCEPT ![w] =
                    IF op = "INSERT"
                    THEN @ \cup BatchCounters(insert_counter[w], size) ELSE @]
            /\ IF o = "ok"
               THEN /\ DbEffect(w, op)
                    /\ SessionEffect(w, op, OpenAt(w, ip[w]))
                    /\ pc' = [pc EXCEPT ![w] = IF last THEN "ready" ELSE "bench"]
                    /\ ip' = [ip EXCEPT ![w] = IF last THEN 1 ELSE @ + 1]
                    /\ insert_counter' = [insert_counter EXCEPT ![w] =
                            IF last /\ workload = "insert"
                            THEN NextCounter(@, size) ELSE @]
                    /\ bytes' = [bytes EXCEPT ![w] = BytesAfter(w, op, last)]
                    /\ fetched' = [fetched EXCEPT ![w] =
                            IF op = "SELECT" THEN Fetched(size, rows) ELSE @]
                    /\ result' = [result EXCEPT ![w] =
                            IF last THEN Report(bytes'[w], fetched'[w]) ELSE @]
                    /\ UNCHANGED failedOp
               ELSE /\ UNCHANGED db
                    /\ SessionFail(w, op, OpenAt(w, ip[w]))
                    /\ pc' = [pc EXCEPT ![w] = "ready"]
                    /\ ip' = [ip EXCEPT ![w] = 1]
                    /\ UNCHANGED <<insert_counter, bytes, fetched>>
                    /\ result' = [result EXCEPT ![w] = ErrResult]
                    /\ failedOp' = [failedOp EXCEPT ![w] = TRUE]
            /\ Track(w, op, "none")
    /\ UNCHANGED <<config, iters, setupErr, conn>>

(***************************************************************************)
(* teardown(): every worker drops the table when its own loop has ended.   *)
(* The method consumes the worker state: the connection is closed and the  *)
(* last iteration's values are gone.                                       *)
(***************************************************************************)
Teardown(w) ==
    /\ pc[w] = "ready"
    /\ LET op == TeardownProg[1]
       IN \E o \in Outcomes(op) :
            /\ CountFault(o)
            /\ IF o = "ok"
               THEN DbEffect(w, op) /\ SessionEffect(w, op, OpenAt(w, 1))
               ELSE UNCHANGED db /\ SessionFail(w, op, OpenAt(w, 1))
            /\ Track(w, op, "none")
    /\ pc' = [pc EXCEPT ![w] = "done"]
    /\ result' = [result EXCEPT ![w] = NoResult]
    /\ failedOp' = [failedOp EXCEPT ![w] = FALSE]
    /\ sent' = [sent EXCEPT ![w] = << >>]
    /\ bytes' = [bytes EXCEPT ![w] = 0]
    /\ fetched' = [fetched EXCEPT ![w] = 0]
    /\ UNCHANGED <<config, ip, iters, insert_counter, gen, setupErr, conn>>

\* the driver runs every worker through state, setup, any number of bench
\* calls, and teardown, the workers interleaving at each round trip
WorkerState == (\E w \in Workers : State(w)) /\ UNCHANGED wide
WorkerSetup == (\E w \in Workers : Setup(w)) /\ UNCHANGED wide
WorkerBenchCall == (\E w \in Workers : BenchCall(w)) /\ UNCHANGED wide
WorkerBench == (\E w \in Workers : Bench(w)) /\ UNCHANGED wide
WorkerTeardown == (\E w \in Workers : Teardown(w)) /\ UNCHANGED wide

Next ==
    \/ WorkerState
    \/ WorkerSetup
    \/ WorkerBenchCall
    \/ WorkerBench
    \/ WorkerTeardown

Spec == Init /\ [][Next]_vars

(***************************************************************************)
(* One SELECT worker alone, at the full width of select_count: its setup   *)
(* (the count of rows to seed, then the seeding statement) and one bench   *)
(* call.  DROP TABLE and CREATE TABLE have been done and nothing else      *)
(* touches the table.                                                      *)
(***************************************************************************)
mainVars == <<concurrency, workload, tx_mode, size, tableExists, rows, faults,
              pc, ip, iters, insert_counter, result, failedOp, sent, bytes,
              fetched, gen, txOpen, tidb_txn_mode, setCount, setupErr, conn,
              setupRun>>

InitWide ==
    /\ concurrency = 1
    /\ workload = "select"
    /\ tx_mode = "AutoCommit"
    /\ size = 1
    /\ tableExists = FALSE
    /\ rows = 0
    /\ faults = 0
    /\ pc = [w \in AllWorkers |-> "start"]
    /\ ip = [w \in AllWorkers |-> 1]
    /\ iters = 0
    /\ insert_counter = [w \in AllWorkers |-> 0]
    /\ result = [w \in AllWorkers |-> NoResult]
    /\ failedOp = [w \in AllWorkers |-> FALSE]
    /\ sent = [w \in AllWorkers |-> << >>]
    /\ bytes = [w \in AllWorkers |-> 0]
    /\ fetched = [w \in AllWorkers |-> 0]
    /\ gen = [w \in AllWorkers |-> {}]
    /\ txOpen = [w \in AllWorkers |-> FALSE]
    /\ tidb_txn_mode = [w \in AllWorkers |-> "default"]
    /\ setCount = [w \in AllWorkers |-> 0]
    /\ setupErr = [w \in AllWorkers |-> "pending"]
    /\ conn = [w \in AllWorkers |-> "none"]
    /\ setupRun = [w \in AllWorkers |-> "none"]
    /\ \E h \in WideHi, l \in WideLo, b \in Builds :
            wide = [phase |-> "config", select_count |-> [hi |-> h, lo |-> l],
                    build |-> b, insert_count |-> U32Of(0), seeds |-> 0,
                    rows |-> 0, fetched |-> 0, items |-> U32Of(0)]

\* setup(): `let insert_count = self.select_count * TEST_DATA_MULTIPLIER;`
WideCount ==
    /\ wide.phase = "config"
    /\ LET c == insert_count_u32(wide.select_count, wide.build)
       IN wide' = IF c.panic THEN [wide EXCEPT !.phase = "panicked"]
                  ELSE [wide EXCEPT !.phase = "counted", !.insert_count = c.value]
    /\ UNCHANGED mainVars

\* setup(): the seeding statement, `conn.exec_drop(...).await?`
WideSeed ==
    /\ wide.phase = "counted"
    /\ \E ok \in BOOLEAN :
        wide' = IF ok
                THEN [wide EXCEPT !.phase = "ready", !.seeds = @ + 1,
                                  !.rows = @ + SeededRowsU32(wide.insert_count)]
                ELSE [wide EXCEPT !.phase = "failed", !.seeds = @ + 1]
    /\ UNCHANGED mainVars

\* bench(): `SELECT id, data FROM t LIMIT ?` and the report's items
WideBench ==
    /\ wide.phase = "ready"
    /\ wide' = [wide EXCEPT !.phase = "iterated",
                            !.fetched = FetchedU32(wide.select_count, wide.rows),
                            !.items = wide.select_count]
    /\ UNCHANGED mainVars

NextWide ==
    \/ WideCount
    \/ WideSeed
    \/ WideBench

SpecWide == InitWide /\ [][NextWide]_vars

TypeOK ==
    /\ concurrency \in 1..MaxWorkers
    /\ pc \in [AllWorkers -> {"start", "setup", "ready", "bench", "done", "dead"}]
    /\ iters \in 0..MaxIters

(***************************************************************************)
(* Properties.                                                             *)
(***************************************************************************)
\* worker w takes a step of its own
Steps(w) == <<pc[w], ip[w]>>' # <<pc[w], ip[w]>>

\* worker w is back from a bench call
Returned(w) == pc[w] = "ready" /\ result[w].kind # "none"

\* C1: only worker 0 sends setup statements (DROP TABLE, CREATE TABLE,
\* seeding); no other worker's setup sends anything.
C1_OnlyWorkerZeroSetsUp ==
    [][\A w \in Workers : (pc[w] = "setup" /\ Steps(w)) => w = 0]_vars

\* C2: while a worker is inside a timed iteration the table exists and no
\* worker has its setup still to do or under way.
C2_SetupBeforeIterations ==
    \A w \in Workers :
        pc[w] = "bench" =>
            /\ tableExists
            /\ \A v \in Workers : pc[v] \notin {"start", "setup"}

\* C3: the counter values two distinct workers have used to build rows are
\* disjoint.
C3_CountersDisjoint ==
    \A w1, w2 \in Workers : w1 # w2 => gen[w1] \cap gen[w2] = {}

\* C4: a bench call in which a round trip failed returns a report with a
\* non-zero status, not an error.
C4_FailureIsReported ==
    \A w \in Workers :
        (Returned(w) /\ failedOp[w]) =>
            result[w].kind = "Ok" /\ result[w].status # 0

\* C5: only worker 0 sends the teardown DROP TABLE, and never while another
\* worker is inside a timed iteration.
C5_OneTeardownAfterAll ==
    [][\A w \in Workers :
        (pc[w] = "ready" /\ pc'[w] = "done") =>
            w = 0 /\ \A v \in Workers \ {w} : pc[v] # "bench"]_vars

\* C6: a connection carries as many SET SESSION tidb_txn_mode statements as
\* init_tx_mode sends for the mode (one for Optimistic and Pessimistic, none
\* for AutoCommit): never more, and exactly that many once it is closed.
C6_DirectiveOncePerConnection ==
    \A w \in Workers :
        /\ setCount[w] <= Len(init_tx_mode(tx_mode))
        /\ pc[w] = "done" => setCount[w] = Len(init_tx_mode(tx_mode))

\* the statements of a bench call that are not session directives
TxOps(seq) == SelectSeq(seq, LAMBDA x : ~IsSet(x))
Begins(seq) == Len(SelectSeq(seq, LAMBDA x : x = "BEGIN"))
Work == IF workload = "insert" THEN "INSERT" ELSE "SELECT"

\* the shape of an iteration, common to C7 as stated and as amended:
\* AutoCommit never begins a transaction, the other modes begin at most one,
\* and a bench call that returns its report has sent the one statement alone
\* (AutoCommit) or BEGIN, the statement, COMMIT in that order (the others).
IterationShape(w) ==
    /\ tx_mode = "AutoCommit" => Begins(sent[w]) = 0 /\ ~txOpen[w]
    /\ Begins(sent[w]) <= 1
    /\ (Returned(w) /\ result[w].kind = "Ok") =>
            TxOps(sent[w]) = IF tx_mode = "AutoCommit" THEN <<Work>>
                             ELSE <<"BEGIN", Work, "COMMIT">>

C8_SameStatementsInBothModes ==
    \A w \in Workers :
        (Returned(w) /\ result[w].kind = "Ok" /\ tx_mode # "AutoCommit") =>
            IF workload = "insert"
            THEN /\ sent[w] = InsertBench_bench("Optimistic")
                 /\ sent[w] = InsertBench_bench("Pessimistic")
            ELSE /\ sent[w] = SelectBench_bench("Optimistic")
                 /\ sent[w] = SelectBench_bench("Pessimistic")

\* C9: a bench call none of whose round trips failed returns a report with
\* status 0 and items equal to the configured size, and in the INSERT
\* workload with bytes = batch_size * 54.
C9_SuccessfulReport ==
    \A w \in Workers :
        (Returned(w) /\ ~failedOp[w]) =>
            /\ result[w].kind = "Ok"
            /\ result[w].status = 0
            /\ result[w].items = size
            /\ workload = "insert" => result[w].bytes = size * 54

\* an INSERT bench call of the largest batch size has returned with no failed
\* round trip, in a transaction mode
C9_Witness ==
    \E w \in Workers :
        /\ Returned(w) /\ ~failedOp[w]
        /\ workload = "insert" /\ size = MaxSize /\ tx_mode = "Optimistic"

\* worker w is in a setup that began with the table in place and that no
\* other worker's DDL has run across
SecondSetup(w) ==
    /\ pc[w] = "setup"
    /\ IF ip[w] = 1 THEN tableExists ELSE setupRun[w] = "rerun"

\* C10: a setup that starts with the table left in place by an earlier setup,
\* and runs without another worker's DDL in between, never fails because the
\* table exists; unless a round trip fails for an external reason it
\* completes, and when it completes the table is present.
C10_SetupIdempotent ==
    [][\A w \in Workers :
        (SecondSetup(w) /\ Steps(w)) =>
            /\ setupErr'[w] # "exists"
            /\ faults' = faults => pc'[w] # "dead"
            /\ pc'[w] = "ready" => tableExists']_vars

\* a setup that began with the table in place has completed undisturbed
C10_Witness ==
    \E w \in Workers : pc[w] = "ready" /\ setupRun[w] = "rerun" /\ tableExists

\* C11: a SELECT iteration that follows a completed, undisturbed setup asks
\* for a window that lies within the seeded rows (the query has no OFFSET, so
\* the window starts at 0 and select_count <= seeded rows is what is asked)
\* and fetches exactly select_count rows.
C11_WindowWithinSeededRows ==
    wide.phase = "iterated" =>
        /\ U32Leq(wide.select_count, U32Of(wide.rows))
        /\ U32Of(wide.fetched) = wide.select_count

\* C12: when the teardown DROP TABLE that ends the run (the one after which
\* every worker has finished teardown) is executed, the table does not exist
\* in the final state, and nothing happens after it.
C12_NoTableAfterRun ==
    [][/\ ((\E w \in Workers : pc[w] = "ready" /\ pc'[w] = "done")
            /\ (\A v \in Workers : pc'[v] = "done")
            /\ faults' = faults) => ~tableExists'
       /\ (\A v \in Workers : pc[v] = "done") => vars' = vars]_vars

\* two workers have run iterations and finished teardown, every statement
\* having been executed
C12_Witness ==
    /\ concurrency >= 2 /\ iters >= 1 /\ faults = 0
    /\ \A w \in Workers : pc[w] = "done"
    /\ ~tableExists

\* C13: a worker whose connect failed got an error from state(), and from
\* then on takes no step: it sends no setup statement, makes no bench call
\* and no statement is ever sent for it.
C13_NoStatementAfterConnectFailure ==
    [][\A w \in Workers :
        /\ (pc[w] = "start" /\ conn'[w] = "failed") => pc'[w] = "dead"
        /\ conn[w] = "failed" =>
                /\ ~Steps(w)
                /\ conn'[w] = "failed"
                /\ sent'[w] = << >> /\ gen'[w] = {} /\ setCount'[w] = 0
                /\ result'[w] = NoResult /\ setupErr'[w] = "pending"]_vars

\* a worker's connect has failed while another worker went on to its setup
C13_Witness ==
    \E w, v \in Workers :
        conn[w] = "failed" /\ pc[w] = "dead" /\ conn[v] = "ok" /\ pc[v] = "ready"

C15_CounterAdvancesOnSuccess ==
    [][\A w \in Workers :
        LET success == /\ pc[w] = "bench" /\ pc'[w] = "ready"
                       /\ result'[w].kind = "Ok" /\ workload = "insert"
        IN /\ pc[w] = "start" => insert_counter'[w] = 0
           /\ insert_counter'[w] >= insert_counter[w]
           /\ insert_counter'[w] =
                IF success THEN insert_counter[w] + size ELSE insert_counter[w]
           /\ success =>
                BatchCounters(insert_counter'[w], size) \cap gen'[w] = {}]_vars

\* a worker has completed two INSERT iterations of more than one row, or one
\* after an iteration that failed
C15_Witness ==
    \E w \in Workers :
        /\ workload = "insert" /\ size > 1 /\ iters >= 2
        /\ Returned(w) /\ result[w].kind = "Ok"
        /\ insert_counter[w] \in {size, 2 * size}

\* C16: while a worker's explicit transaction is open, its session's
\* tidb_txn_mode is the one of the configured TxMode, whatever the server's
\* default is (a session that was never told a mode runs under the default).
C16_SessionModeIsConfigured ==
    \A w \in Workers : \A default \in {"optimistic", "pessimistic"} :
        txOpen[w] =>
            (IF tidb_txn_mode[w] = "default" THEN default ELSE tidb_txn_mode[w])
                = (IF tx_mode = "Pessimistic" THEN "pessimistic" ELSE "optimistic")

\* C17: no worker's setup ends with the table-already-exists error.
C17_CreateNeverFindsTable ==
    \A w \in Workers : setupErr[w] # "exists"

\* C18: the report of a SELECT iteration carries as items the number of rows
\* the query fetched.
C18_ItemsAreRowsFetched ==
    wide.phase = "iterated" => wide.items = U32Of(wide.fetched)

\* C19: setup never overflows computing the row count, and a completed setup
\* has left exactly select_count * TEST_DATA_MULTIPLIER rows.
C19_SeedsTwiceSelectCount ==
    /\ wide.phase # "panicked"
    /\ wide.phase \in {"ready", "iterated"} =>
            /\ ~MulOverflows(wide.select_count, TEST_DATA_MULTIPLIER)
            /\ U32Of(wide.rows) = MulWrapped(wide.select_count, TEST_DATA_MULTIPLIER)

\* C20: when no round trip fails for an external reason, no worker's setup
\* ends in an error (each reaches its first iteration), and no worker is past
\* its setup while another worker has yet to finish its own.
C20_AllPassRendezvous ==
    /\ faults = 0 => \A w \in Workers : pc[w] # "dead"
    /\ \A w, v \in Workers :
            pc[w] \in {"ready", "bench", "done"} => pc[v] \notin {"start", "setup"}
====
